---- MODULE Spec2Model ----
(***************************************************************************)
(* TaskFlow: the task routes of the Express server (server/routes/tasks.js)*)
(* over the PostgreSQL tables tasks, task_collaborators and profiles.      *)
(*                                                                         *)
(* A request handler is a chain of awaited pool.query calls.  Each query   *)
(* runs atomically in the database; between two queries of one handler the *)
(* queries of other handlers may run.  One action of the model is one      *)
(* query together with the synchronous JavaScript that follows it up to    *)
(* the next await (or up to the response).                                 *)
(***************************************************************************)
EXTENDS Integers, Sequences, FiniteSets, TLC

\* ------------------------------------------------------------------ bounds
MaxTasks == 2
MaxEvents == 3

\* ------------------------------------------------------- program constants
TitleMaxLen == 255
DescMaxLen == 1000

Statuses == {"pending", "in_progress", "completed"}
Priorities == {"low", "medium", "high"}
Permissions == {"read", "write"}
UpdatableKeys == {"title", "description", "status", "priority", "due_date"}

\* --------------------------------------------------------------- principals
Users == {"u1", "u2", "u3"}

EmailOf(u) == CASE u = "u1" -> "u1@x.io"
                [] u = "u2" -> "u2@x.io"
                [] u = "u3" -> "u3@x.io"

\* the profiles table; rows are never inserted or deleted by the task routes
profiles == {[id |-> u, email |-> EmailOf(u)] : u \in Users}

\* well-formed addresses (isEmail); "nobody@x.io" has no profile
WellFormedEmails == {EmailOf(u) : u \in Users} \cup {"nobody@x.io"}
IsEmail(e) == e \in WellFormedEmails

\* ISO-8601 strings and the timestamp new Date(s) yields for them
IsoDates == {"2026-01-01", "2026-02-01"}
IsISO8601(s) == s \in IsoDates
NewDate(s) == CASE s = "2026-01-01" -> 20260101
                [] s = "2026-02-01" -> 20260201
NullDate == -1

TaskIds == 1..MaxTasks

\* ------------------------------------------------------------ string helpers
RECURSIVE TrimLeft(_)
TrimLeft(s) == IF s # <<>> /\ Head(s) = " " THEN TrimLeft(Tail(s)) ELSE s

RECURSIVE TrimRight(_)
TrimRight(s) == IF s # <<>> /\ s[Len(s)] = " "
                THEN TrimRight(SubSeq(s, 1, Len(s) - 1)) ELSE s

Trim(s) == TrimRight(TrimLeft(s))

Has(body, k) == k \in DOMAIN body

\* ---------------------------------------------------------------- variables
VARIABLES
    tasks,        \* rows of table tasks
    grants,       \* rows of table task_collaborators
    nextTaskId,   \* next generated tasks.id
    nextGrantId,  \* next generated task_collaborators.id
    now,          \* database clock, NOW()
    events,       \* change records emitted through req.io.emit, in order
    reqs,         \* the request handlers in progress, by slot
    sess          \* the browser sessions: socket, TaskProvider state

vars == <<tasks, grants, nextTaskId, nextGrantId, now, events, reqs, sess>>

Slots == {1, 2}

NoRes == [status |-> 0, error |-> "none"]

Idle == [op |-> "idle", user |-> "", id |-> 0, sent |-> [none |-> ""],
         body |-> [none |-> ""], pc |-> "idle", rows |-> {}, found |-> {}, list |-> <<>>, res |-> NoRes]

\* ------------------------------------------------------------------ queries
\* variant: the owner check also lets a 'write' collaborator through
OwnerQuery_OrWriter(id, u) ==
    {t \in tasks : t.id = id /\ (t.created_by = u \/
        \E g \in grants : g.task_id = id /\ g.user_id = u /\ g.permission = "write")}

\* SELECT * FROM tasks WHERE id = $1 AND created_by = $2
OwnerQuery(id, u) == {t \in tasks : t.id = id /\ t.created_by = u}

\* tasks t LEFT JOIN task_collaborators tc ON t.id = tc.task_id AND tc.user_id = $2
LeftJoinGrants(t, u) ==
    LET m == {g \in grants : g.task_id = t.id /\ g.user_id = u}
    IN IF m = {} THEN {[task |-> t, permission |-> "NULL"]}
       ELSE {[task |-> t, permission |-> g.permission] : g \in m}

\* variant: any grant passes (tc.permission IS NOT NULL)
PermissionQuery_AnyGrant(id, u) ==
    {j \in UNION {LeftJoinGrants(t, u) : t \in {x \in tasks : x.id = id}} :
        j.task.created_by = u \/ j.permission # "NULL"}

\* ... WHERE t.id = $1 AND (t.created_by = $2 OR tc.permission = 'write')
PermissionQuery(id, u) ==
    {j \in UNION {LeftJoinGrants(t, u) : t \in {x \in tasks : x.id = id}} :
        j.task.created_by = u \/ j.permission = "write"}

\* SELECT * FROM profiles WHERE email = $1
UserQuery(email) == {p \in profiles : p.email = email}

\* SELECT * FROM task_collaborators WHERE task_id = $1 AND user_id = $2
ExistingQuery(id, uid) == {g \in grants : g.task_id = id /\ g.user_id = uid}

\* the row of task_collaborators columns in a LEFT JOIN row without a match
NoGrant == [id |-> 0, task_id |-> 0, user_id |-> "NULL", permission |-> "NULL"]

\* FROM tasks t LEFT JOIN task_collaborators tc ON t.id = tc.task_id
ListJoin ==
    UNION {LET m == {g \in grants : g.task_id = t.id}
           IN IF m = {} THEN {[task |-> t, tc |-> NoGrant]}
              ELSE {[task |-> t, tc |-> g] : g \in m} : t \in tasks}

\* json_agg(json_build_object(...)) FILTER (WHERE tc.id IS NOT NULL):
\* SQL NULL when the filter leaves no row
JsonAggFilter(rows) ==
    LET kept == {j \in rows : j.tc.id # NoGrant.id}
    IN [isNull |-> kept = {},
        items |-> {[id |-> j.tc.id, user_id |-> j.tc.user_id,
                    permission |-> j.tc.permission] : j \in kept}]

EmptyJsonArray == [isNull |-> FALSE, items |-> {}]

Coalesce(v, d) == IF v.isNull THEN d ELSE v

\* variant: the aggregate is returned without COALESCE
Collaborators_NoCoalesce(t) ==
    JsonAggFilter({j \in ListJoin : j.task.id = t.id})

\* COALESCE(json_agg(...) FILTER (...), '[]') as collaborators
Collaborators(t) ==
    Coalesce(JsonAggFilter({j \in ListJoin : j.task.id = t.id}), EmptyJsonArray)

\* variant: the collaborator subquery is missing
ListWhere_OwnerOnly(t, u) == t.created_by = u

\* WHERE t.created_by = $1 OR t.id IN (SELECT task_id ... WHERE user_id = $1)
ListWhere(t, u) ==
    \/ t.created_by = u
    \/ t.id \in {g.task_id : g \in {x \in grants : x.user_id = u}}

\* SELECT t.*, p.email as creator_email, COALESCE(...) as collaborators
ListRow(t) ==
    t @@ [creator_email |-> IF \E p \in profiles : p.id = t.created_by
                            THEN EmailOf(t.created_by) ELSE "NULL",
          collaborators |-> Collaborators(t)]

\* ORDER BY t.created_at DESC
RECURSIVE OrderByCreatedDesc(_)
OrderByCreatedDesc(S) ==
    IF S = {} THEN <<>>
    ELSE LET top == CHOOSE t \in S : \A o \in S : o.created_at <= t.created_at
         IN <<top>> \o OrderByCreatedDesc(S \ {top})

\* GET /api/tasks: WHERE, GROUP BY t.id (one row per task), ORDER BY
List(u) ==
    LET groups == {j.task : j \in {x \in ListJoin : ListWhere(x.task, u)}}
        rows == OrderByCreatedDesc(groups)
    IN [i \in 1..Len(rows) |-> ListRow(rows[i])]

\* --------------------------------------------------------------- validation
\* body('title').trim().isLength({ min: 1, max: 255 }); an absent title is ''
TitleOk(body) ==
    LET t == IF Has(body, "title") THEN Trim(body.title) ELSE <<>>
    IN Len(t) >= 1 /\ Len(t) <= TitleMaxLen

OptionalOk(body) ==
    /\ Has(body, "description") => Len(body.description) <= DescMaxLen
    /\ Has(body, "status") => body.status \in Statuses
    /\ Has(body, "priority") => body.priority \in Priorities
    /\ Has(body, "due_date") => IsISO8601(body.due_date)

\* validators of POST /
CreateValid(body) == TitleOk(body) /\ OptionalOk(body)

\* validators of PUT /:id (title is optional there)
UpdateValid(body) == (Has(body, "title") => TitleOk(body)) /\ OptionalOk(body)

\* validators of POST /:id/collaborators
AddValid(body) == IsEmail(body.email) /\ body.permission \in Permissions

\* the sanitizer trim() rewrites req.body.title in place
Sanitize(body) ==
    [k \in DOMAIN body |-> IF k = "title" THEN Trim(body[k]) ELSE body[k]]

\* ------------------------------------------------------------ request slots
InFlight == {r \in Slots : reqs[r].pc # "idle"}

\* a computed response is sent in the same turn of the event loop
NoResponsePending == \A r \in Slots : reqs[r].pc # "done"

Free(r) ==
    /\ reqs[r] = Idle
    /\ NoResponsePending
    /\ Len(events) + Cardinality(InFlight) < MaxEvents

At(r, op, pc) ==
    /\ reqs[r].op = op
    /\ reqs[r].pc = pc
    /\ NoResponsePending

Request(op, u, id, body) ==
    [op |-> op, user |-> u, id |-> id, sent |-> body, body |-> body,
     pc |-> "idle", rows |-> {}, found |-> {}, list |-> <<>>, res |-> NoRes]

Reply(q, status, error) ==
    [q EXCEPT !.pc = "done", !.res = [status |-> status, error |-> error]]

Goto(q, pc) == [q EXCEPT !.pc = pc]

Emit(kind, id, payload, userId, by) ==
    Append(events, [kind |-> kind, taskId |-> id, payload |-> payload,
                    userId |-> userId, by |-> by])

\* ----------------------------------------------------------------- sessions
Sessions == {"s1", "s2"}

\* the principal signed in at each browser
SessionUser(s) == IF s = "s1" THEN "u1" ELSE "u3"

\* conn: the socket of SocketManager, "new" before the first connect(),
\* "on" while connected, "lost" while its transport is down, "off" after
\* disconnect(); listeners: the callbacks per event in SocketManager.listeners;
\* curCbs: the callbacks per event attached to the socket of SocketManager;
\* leaked: the callbacks per event attached to sockets that SocketManager has
\* replaced without closing; inbox: the callback invocations that are due,
\* one record each; local: the tasks state of TaskProvider; fetches:
\* responses of GET /tasks on their way back; last: the listener or fetch
\* that ran last; toast: the toast on screen; thrown: the promise of the
\* last mutation handler was rejected
NewSession ==
    [conn |-> "new", listeners |-> 0, curCbs |-> 0, leaked |-> 0,
     inbox |-> <<>>, local |-> <<>>, fetches |-> {}, last |-> "none",
     toast |-> "none", thrown |-> FALSE]

\* the callback invocations one emitted record causes in session s: one per
\* callback attached to an open, connected socket
Callbacks(s) ==
    (IF sess[s].conn = "on" THEN sess[s].curCbs ELSE 0) + sess[s].leaked

\* the sessions with a socket connected to the server
Subscribed == {s \in Sessions : Callbacks(s) > 0}

\* the records appended by this step
Published == SubSeq(events', Len(events) + 1, Len(events'))

RECURSIVE Times(_, _)
Times(records, n) == IF n = 0 THEN <<>> ELSE records \o Times(records, n - 1)

\* variant: a record goes only to the sessions of the acting principal
Deliver_ToActor ==
    sess' = [s \in Sessions |->
               IF s \in Subscribed
                    /\ \A i \in DOMAIN Published : Published[i].by = SessionUser(s)
               THEN [sess[s] EXCEPT !.inbox = @ \o Times(Published, Callbacks(s))]
               ELSE sess[s]]

\* req.io.emit(event, data): to every connected socket, no room, no filter
Deliver ==
    sess' = [s \in Sessions |->
               IF s \in Subscribed
               THEN [sess[s] EXCEPT !.inbox = @ \o Times(Published, Callbacks(s))]
               ELSE sess[s]]

\* ------------------------------------------------------------ POST /  create
\* variant: created_by is taken from the request body when it is there
NewTask_BodyOwner(body, u) ==
    [id |-> nextTaskId,
     title |-> body.title,
     description |-> IF Has(body, "description") THEN body.description ELSE <<>>,
     status |-> IF Has(body, "status") THEN body.status ELSE "pending",
     priority |-> IF Has(body, "priority") THEN body.priority ELSE "medium",
     due_date |-> IF Has(body, "due_date") THEN NewDate(body.due_date) ELSE NullDate,
     created_by |-> IF Has(body, "created_by") THEN body.created_by ELSE u,
     created_at |-> now,
     updated_at |-> now]

NewTask(body, u) ==
    [id |-> nextTaskId,
     title |-> body.title,
     description |-> IF Has(body, "description") THEN body.description ELSE <<>>,
     status |-> IF Has(body, "status") THEN body.status ELSE "pending",
     priority |-> IF Has(body, "priority") THEN body.priority ELSE "medium",
     due_date |-> IF Has(body, "due_date") THEN NewDate(body.due_date) ELSE NullDate,
     created_by |-> u,
     created_at |-> now,
     updated_at |-> now]

CreateArrive(r, u, body) ==
    /\ Free(r)
    /\ IF ~CreateValid(body)
       THEN /\ reqs' = [reqs EXCEPT ![r] =
                            Reply(Request("create", u, 0, body), 400, "validation")]
            /\ UNCHANGED <<tasks, grants, nextTaskId, nextGrantId, now, events, sess>>
       ELSE /\ nextTaskId <= MaxTasks
            /\ LET row == NewTask(Sanitize(body), u)
               IN /\ tasks' = tasks \cup {row}
                  /\ reqs' = [reqs EXCEPT ![r] =
                         [Request("create", u, 0, body)
                            EXCEPT !.body = Sanitize(body),
                                   !.pc = "emit", !.rows = {row}]]
            /\ nextTaskId' = nextTaskId + 1
            /\ now' = now + 1
            /\ UNCHANGED <<grants, nextGrantId, events, sess>>

CreateEmit(r) ==
    /\ At(r, "create", "emit")
    /\ events' = Emit("task_created", 0, reqs[r].rows, "", reqs[r].user)
    /\ reqs' = [reqs EXCEPT ![r] = Reply(@, 201, "none")]
    /\ Deliver
    /\ UNCHANGED <<tasks, grants, nextTaskId, nextGrantId, now>>

\* ---------------------------------------------------------- PUT /:id  update
SetValue(body, k) ==
    IF k = "due_date" THEN NewDate(body[k]) ELSE body[k]

\* variant: the SET list names every updatable column, absent ones get the
\* defaults of create
UpdateRow_Overwrite(t, body) ==
    [k \in DOMAIN t |->
        IF k \in DOMAIN body \cap UpdatableKeys THEN SetValue(body, k)
        ELSE IF k = "updated_at" THEN now
        ELSE IF k = "status" THEN "pending"
        ELSE IF k = "priority" THEN "medium"
        ELSE t[k]]

\* UPDATE tasks SET <present keys>, updated_at = NOW() WHERE id = $n
UpdateRow(t, body) ==
    [k \in DOMAIN t |->
        IF k \in DOMAIN body \cap UpdatableKeys THEN SetValue(body, k)
        ELSE IF k = "updated_at" THEN now
        ELSE t[k]]

\* variant: the check for an empty SET list is missing
UpdateArrive_NoFieldCheck(r, u, id, body) ==
    /\ Free(r)
    /\ LET q == Request("update", u, id, body)
       IN reqs' = [reqs EXCEPT ![r] =
            IF ~UpdateValid(body) THEN Reply(q, 400, "validation")
            ELSE IF PermissionQuery(id, u) = {} THEN Reply(q, 403, "Permission denied")
            ELSE [q EXCEPT !.pc = "update", !.body = Sanitize(body)]]
    /\ UNCHANGED <<tasks, grants, nextTaskId, nextGrantId, now, events, sess>>

UpdateArrive(r, u, id, body) ==
    /\ Free(r)
    /\ LET q == Request("update", u, id, body)
       IN reqs' = [reqs EXCEPT ![r] =
            IF ~UpdateValid(body) THEN Reply(q, 400, "validation")
            ELSE IF PermissionQuery(id, u) = {} THEN Reply(q, 403, "Permission denied")
            ELSE IF DOMAIN body \cap UpdatableKeys = {}
                 THEN Reply(q, 400, "No valid fields to update")
            ELSE [q EXCEPT !.pc = "update", !.body = Sanitize(body)]]
    /\ UNCHANGED <<tasks, grants, nextTaskId, nextGrantId, now, events, sess>>

UpdateWrite(r) ==
    /\ At(r, "update", "update")
    /\ LET hit == {t \in tasks : t.id = reqs[r].id}
           new == {UpdateRow(t, reqs[r].body) : t \in hit}
       IN /\ tasks' = (tasks \ hit) \cup new
          /\ reqs' = [reqs EXCEPT ![r] = [@ EXCEPT !.pc = "emit", !.rows = new]]
    /\ now' = now + 1
    /\ UNCHANGED <<grants, nextTaskId, nextGrantId, events, sess>>

UpdateEmit(r) ==
    /\ At(r, "update", "emit")
    /\ events' = Emit("task_updated", reqs[r].id, reqs[r].rows, "", reqs[r].user)
    /\ reqs' = [reqs EXCEPT ![r] = Reply(@, 200, "none")]
    /\ Deliver
    /\ UNCHANGED <<tasks, grants, nextTaskId, nextGrantId, now>>

\* ------------------------------------------------------- DELETE /:id  delete
\* variant: the foreign key does not cascade
CascadeGrants_None(G, id) == G

\* task_collaborators.task_id REFERENCES tasks ON DELETE CASCADE
CascadeGrants(G, id) == {g \in G : g.task_id # id}

DeleteArrive(r, u, id) ==
    /\ Free(r)
    /\ LET q == Request("delete", u, id, [none |-> ""])
       IN reqs' = [reqs EXCEPT ![r] =
            IF OwnerQuery(id, u) = {} THEN Reply(q, 403, "Permission denied")
            ELSE Goto(q, "delete")]
    /\ UNCHANGED <<tasks, grants, nextTaskId, nextGrantId, now, events, sess>>

\* DELETE FROM tasks WHERE id = $1
DeleteWrite(r) ==
    /\ At(r, "delete", "delete")
    /\ tasks' = {t \in tasks : t.id # reqs[r].id}
    /\ grants' = CascadeGrants(grants, reqs[r].id)
    /\ reqs' = [reqs EXCEPT ![r] = Goto(@, "emit")]
    /\ UNCHANGED <<nextTaskId, nextGrantId, now, events, sess>>

\* variant: the record of a deletion is emitted under the kind of an update
DeleteEmit_WrongKind(r) ==
    /\ At(r, "delete", "emit")
    /\ events' = Emit("task_updated", reqs[r].id, {}, "", reqs[r].user)
    /\ reqs' = [reqs EXCEPT ![r] = Reply(@, 200, "none")]
    /\ Deliver
    /\ UNCHANGED <<tasks, grants, nextTaskId, nextGrantId, now>>

DeleteEmit(r) ==
    /\ At(r, "delete", "emit")
    /\ events' = Emit("task_deleted", reqs[r].id, {}, "", reqs[r].user)
    /\ reqs' = [reqs EXCEPT ![r] = Reply(@, 200, "none")]
    /\ Deliver
    /\ UNCHANGED <<tasks, grants, nextTaskId, nextGrantId, now>>

\* ------------------------------------- POST /:id/collaborators  addCollaborator
\* task_collaborators.task_id is a foreign key into tasks
FkTaskExists(id) == \E t \in tasks : t.id = id

\* variant: no unique constraint
UniqueTaskUser_Off(G, id, uid) == TRUE

\* UNIQUE (task_id, user_id) on task_collaborators
UniqueTaskUser(G, id, uid) == ~\E g \in G : g.task_id = id /\ g.user_id = uid

AddArrive(r, u, id, body) ==
    /\ Free(r)
    /\ LET q == Request("add", u, id, body)
       IN reqs' = [reqs EXCEPT ![r] =
            IF ~AddValid(body) THEN Reply(q, 400, "validation")
            ELSE IF OwnerQuery(id, u) = {} THEN Reply(q, 403, "Permission denied")
            ELSE Goto(q, "finduser")]
    /\ UNCHANGED <<tasks, grants, nextTaskId, nextGrantId, now, events, sess>>

AddFindUser(r) ==
    /\ At(r, "add", "finduser")
    /\ LET userResult == UserQuery(reqs[r].body.email)
       IN reqs' = [reqs EXCEPT ![r] =
            IF userResult = {} THEN Reply(@, 404, "User not found")
            ELSE [@ EXCEPT !.pc = "existing", !.found = userResult]]
    /\ UNCHANGED <<tasks, grants, nextTaskId, nextGrantId, now, events, sess>>

CollaboratorUser(q) == CHOOSE p \in q.found : TRUE

\* variant: an existing grant is overwritten with the requested permission
AddExisting_Upsert(r) ==
    /\ At(r, "add", "existing")
    /\ LET old == ExistingQuery(reqs[r].id, CollaboratorUser(reqs[r]).id)
           new == {[g EXCEPT !.permission = reqs[r].body.permission] : g \in old}
       IN IF old # {}
          THEN /\ grants' = (grants \ old) \cup new
               /\ reqs' = [reqs EXCEPT ![r] = [@ EXCEPT !.pc = "emit", !.rows = new]]
          ELSE /\ grants' = grants
               /\ reqs' = [reqs EXCEPT ![r] = Goto(@, "insert")]
    /\ UNCHANGED <<tasks, nextTaskId, nextGrantId, now, events, sess>>

AddExisting(r) ==
    /\ At(r, "add", "existing")
    /\ reqs' = [reqs EXCEPT ![r] =
            IF ExistingQuery(reqs[r].id, CollaboratorUser(reqs[r]).id) # {}
            THEN Reply(@, 400, "User is already a collaborator")
            ELSE Goto(@, "insert")]
    /\ UNCHANGED <<tasks, grants, nextTaskId, nextGrantId, now, events, sess>>

\* INSERT INTO task_collaborators ...; a constraint violation throws and the
\* catch block answers 500
AddInsert(r) ==
    /\ At(r, "add", "insert")
    /\ LET uid == CollaboratorUser(reqs[r]).id
           row == [id |-> nextGrantId, task_id |-> reqs[r].id, user_id |-> uid,
                   permission |-> reqs[r].body.permission]
       IN IF FkTaskExists(reqs[r].id) /\ UniqueTaskUser(grants, reqs[r].id, uid)
          THEN /\ grants' = grants \cup {row}
               /\ nextGrantId' = nextGrantId + 1
               /\ reqs' = [reqs EXCEPT ![r] = [@ EXCEPT !.pc = "emit", !.rows = {row}]]
          ELSE /\ reqs' = [reqs EXCEPT ![r] = Reply(@, 500, "Failed to add collaborator")]
               /\ UNCHANGED <<grants, nextGrantId>>
    /\ UNCHANGED <<tasks, nextTaskId, now, events, sess>>

AddEmit(r) ==
    /\ At(r, "add", "emit")
    /\ events' = Emit("collaborator_added", reqs[r].id, reqs[r].rows,
                      CollaboratorUser(reqs[r]).id, reqs[r].user)
    /\ reqs' = [reqs EXCEPT ![r] = Reply(@, 201, "none")]
    /\ Deliver
    /\ UNCHANGED <<tasks, grants, nextTaskId, nextGrantId, now>>

\* ------------------------ DELETE /:id/collaborators/:userId  removeCollaborator
RemoveArrive(r, u, id, userId) ==
    /\ Free(r)
    /\ LET q == Request("remove", u, id, [userId |-> userId])
       IN reqs' = [reqs EXCEPT ![r] =
            IF OwnerQuery(id, u) = {} THEN Reply(q, 403, "Permission denied")
            ELSE Goto(q, "remove")]
    /\ UNCHANGED <<tasks, grants, nextTaskId, nextGrantId, now, events, sess>>

\* variant: a DELETE that matched no row is answered 404
RemoveWrite_RowCount(r) ==
    /\ At(r, "remove", "remove")
    /\ LET hit == {g \in grants :
                    g.task_id = reqs[r].id /\ g.user_id = reqs[r].body.userId}
       IN /\ grants' = grants \ hit
          /\ reqs' = [reqs EXCEPT ![r] =
                IF hit = {} THEN Reply(@, 404, "Collaborator not found")
                ELSE Goto(@, "emit")]
    /\ UNCHANGED <<tasks, nextTaskId, nextGrantId, now, events, sess>>

\* DELETE FROM task_collaborators WHERE task_id = $1 AND user_id = $2
RemoveWrite(r) ==
    /\ At(r, "remove", "remove")
    /\ grants' = {g \in grants :
                    ~(g.task_id = reqs[r].id /\ g.user_id = reqs[r].body.userId)}
    /\ reqs' = [reqs EXCEPT ![r] = Goto(@, "emit")]
    /\ UNCHANGED <<tasks, nextTaskId, nextGrantId, now, events, sess>>

RemoveEmit(r) ==
    /\ At(r, "remove", "emit")
    /\ events' = Emit("collaborator_removed", reqs[r].id, {},
                      reqs[r].body.userId, reqs[r].user)
    /\ reqs' = [reqs EXCEPT ![r] = Reply(@, 200, "none")]
    /\ Deliver
    /\ UNCHANGED <<tasks, grants, nextTaskId, nextGrantId, now>>

\* ------------------------------------------------------------- GET /  list
ListArrive(r, u) ==
    /\ Free(r)
    /\ reqs' = [reqs EXCEPT ![r] =
            Reply([Request("list", u, 0, [none |-> ""]) EXCEPT !.list = List(u)],
                  200, "none")]
    /\ UNCHANGED <<tasks, grants, nextTaskId, nextGrantId, now, events, sess>>

\* ------------------------------------------------- GET /search-users  search
\* the profiles table with the searched columns spelled out, one character
\* per element: twelve principals, more than LIMIT
DirectoryIds ==
    {"u1", "u2", "u3", "u4", "u5", "u6", "u7", "u8", "u9", "u10", "u11", "u12"}

Directory ==
    {[id |-> "u1", email |-> <<"u", "@", "a">>, name |-> <<"A", "b">>],
     [id |-> "u2", email |-> <<"u", "@", "b">>, name |-> <<"a", "B">>],
     [id |-> "u3", email |-> <<"u", "@", "c">>, name |-> <<"B", "b">>],
     [id |-> "u4", email |-> <<"v", "@", "a">>, name |-> <<"c", "c">>],
     [id |-> "u5", email |-> <<"v", "@", "b">>, name |-> <<"A", "b">>],
     [id |-> "u6", email |-> <<"v", "@", "c">>, name |-> <<"a", "B">>],
     [id |-> "u7", email |-> <<"w", "@", "a">>, name |-> <<"B", "b">>],
     [id |-> "u8", email |-> <<"w", "@", "b">>, name |-> <<"c", "c">>],
     [id |-> "u9", email |-> <<"w", "@", "c">>, name |-> <<"A", "b">>],
     [id |-> "u10", email |-> <<"x", "@", "a">>, name |-> <<"a", "B">>],
     [id |-> "u11", email |-> <<"x", "@", "b">>, name |-> <<"B", "b">>],
     [id |-> "u12", email |-> <<"x", "@", "c">>, name |-> <<"c", "c">>]}

\* case folding of ILIKE
Lower(c) == CASE c = "A" -> "a" [] c = "B" -> "b" [] c = "C" -> "c" [] OTHER -> c

\* text ILIKE pattern: % matches any run of characters, _ any one character,
\* any other character itself without regard to case
RECURSIVE ILike(_, _)
ILike(text, pattern) ==
    IF pattern = <<>> THEN text = <<>>
    ELSE IF Head(pattern) = "%"
         THEN ILike(text, Tail(pattern))
                \/ (text # <<>> /\ ILike(Tail(text), pattern))
    ELSE IF text = <<>> THEN FALSE
    ELSE /\ (Head(pattern) = "_" \/ Lower(Head(pattern)) = Lower(Head(text)))
         /\ ILike(Tail(text), Tail(pattern))

MinQueryLen == 2
SearchLimit == 10

\* WHERE (email ILIKE $1 OR name ILIKE $1) AND id != $2, with $1 = `%${q}%`
SearchQuery(q, u) ==
    LET pattern == <<"%">> \o q \o <<"%">>
    IN {p \in Directory :
          (ILike(p.email, pattern) \/ ILike(p.name, pattern)) /\ p.id # u}

\* LIMIT n without ORDER BY: any n of the rows, all of them when fewer
Limit(rows, n) ==
    IF Cardinality(rows) <= n THEN {rows}
    ELSE {S \in SUBSET rows : Cardinality(S) = n}

\* if (!q || q.length < 2) return res.json([])
SearchArrive(r, u, query) ==
    /\ Free(r)
    /\ \E found \in
            IF ~Has(query, "q") \/ query.q = <<>> \/ Len(query.q) < MinQueryLen
            THEN {{}}
            ELSE Limit(SearchQuery(query.q, u), SearchLimit) :
          reqs' = [reqs EXCEPT ![r] =
                     Reply([Request("search", u, 0, query) EXCEPT !.rows = found],
                           200, "none")]
    /\ UNCHANGED <<tasks, grants, nextTaskId, nextGrantId, now, events, sess>>

\* the response leaves the server; the handler is finished
Respond(r) ==
    /\ reqs[r].pc = "done"
    /\ reqs' = [reqs EXCEPT ![r] = Idle]
    /\ UNCHANGED <<tasks, grants, nextTaskId, nextGrantId, now, events, sess>>

\* ------------------------------------------------- TaskProvider, per session
ServerUnchanged ==
    UNCHANGED <<tasks, grants, nextTaskId, nextGrantId, now, events, reqs>>

\* loadTasks(): GET /tasks is answered from the store as it is now; the
\* response is on its way
LoadTasks(q, u) == [q EXCEPT !.fetches = @ \cup {List(u)}]

\* checkAuthStatus: setUser, socketManager.connect; then the effect of
\* TaskProvider: loadTasks() and setupSocketListeners().  Here the socket is
\* connected by the time the effect of AuthProvider calls connect() again,
\* which then returns at once.
Connect(s) ==
    /\ sess[s].conn = "new"
    /\ NoResponsePending
    /\ sess' = [sess EXCEPT ![s] =
                   LoadTasks([@ EXCEPT !.conn = "on", !.listeners = 1,
                                       !.curCbs = 1], SessionUser(s))]
    /\ ServerUnchanged

\* handleSignOut: socketManager.disconnect(); the socket is closed and its
\* listeners run no more
Disconnect(s) ==
    /\ sess[s].conn = "on"
    /\ NoResponsePending
    /\ sess' = [sess EXCEPT ![s] =
                   [@ EXCEPT !.conn = "off", !.curCbs = 0, !.inbox = <<>>]]
    /\ ServerUnchanged

\* const data = await apiClient.getTasks(); setTasks(data)
LoadDone(s) ==
    /\ NoResponsePending
    /\ \E data \in sess[s].fetches :
          sess' = [sess EXCEPT ![s] =
                     [@ EXCEPT !.local = data, !.fetches = @ \ {data},
                               !.last = "loaded"]]
    /\ ServerUnchanged

\* setTasks(prev => [data.task, ...prev])
TaskCreated(local, task) == <<task>> \o local

\* variant: the record replaces the local task
Merge_Replace(task, update) == update

\* { ...task, ...data.task }
Merge(task, update) ==
    [k \in DOMAIN task \cup DOMAIN update |->
        IF k \in DOMAIN update THEN update[k] ELSE task[k]]

\* setTasks(prev => prev.map(task =>
\*   task.id === data.task.id ? { ...task, ...data.task } : task))
TaskUpdated(local, task) ==
    [i \in DOMAIN local |->
        IF local[i].id = task.id THEN Merge(local[i], task) ELSE local[i]]

\* variant: the listener empties the list
TaskDeleted_Clear(local, id) == <<>>

\* setTasks(prev => prev.filter(task => task.id !== data.taskId))
TaskDeleted(local, id) == SelectSeq(local, LAMBDA t : t.id # id)

\* the listener registered by setupSocketListeners for the kind of record e.
\* A task_updated record without a task (the UPDATE matched no row) cannot
\* be merged and leaves the tasks state as it is.
Reconcile(q, e, u) ==
    CASE e.kind = "task_created" ->
           [q EXCEPT !.local = TaskCreated(@, CHOOSE t \in e.payload : TRUE)]
      [] e.kind = "task_updated" ->
           IF e.payload = {} THEN q
           ELSE [q EXCEPT !.local = TaskUpdated(@, CHOOSE t \in e.payload : TRUE)]
      [] e.kind = "task_deleted" ->
           [q EXCEPT !.local = TaskDeleted(@, e.taskId)]
      [] e.kind \in {"collaborator_added", "collaborator_removed"} ->
           LoadTasks(q, u)

\* the socket hands the next record to its listener
Handle(s) ==
    /\ sess[s].inbox # <<>>
    /\ NoResponsePending
    /\ LET e == Head(sess[s].inbox)
       IN sess' = [sess EXCEPT ![s] =
                     [Reconcile(@, e, SessionUser(s))
                        EXCEPT !.inbox = Tail(sess[s].inbox), !.last = e.kind]]
    /\ ServerUnchanged

Session(s) == Connect(s) \/ Disconnect(s) \/ LoadDone(s) \/ Handle(s)

\* ------------------------------------------- AuthProvider and SocketManager
\* checkAuthStatus is called by the mount effect and once more by
\* handleAuthCallback when the page was loaded with a token
AuthChecks == 2

\* one call of checkAuthStatus succeeds:
\*   setUser(userData); socketManager.connect(userData.id)
\*     creates a socket with the callbacks of listeners attached, unless the
\*     socket of SocketManager is connected;
\*   effect of TaskProvider ([user]): loadTasks(); setupSocketListeners()
\*     adds one callback per event to listeners and to the socket;
\*   effect of AuthProvider ([user]): socketManager.connect(user.id)
\*     returns if the socket is connected by now; if it is still connecting
\*     (raced), replaces it by another socket with the callbacks of listeners
\*     attached, and the replaced socket stays open with its callbacks.
SignIn(s) ==
    /\ sess[s].conn \in {"new", "on", "off"}
    /\ sess[s].listeners < AuthChecks
    /\ NoResponsePending
    /\ \E raced \in (IF sess[s].conn = "on" THEN {FALSE} ELSE BOOLEAN) :
         LET n == sess[s].listeners + 1
             cur == IF sess[s].conn = "on" THEN sess[s].curCbs + 1 ELSE n
         IN sess' = [sess EXCEPT ![s] =
                       LoadTasks([@ EXCEPT !.conn = "on", !.listeners = n,
                                           !.curCbs = cur,
                                           !.leaked = @ + (IF raced THEN n ELSE 0)],
                                 SessionUser(s))]
    /\ ServerUnchanged

\* the transport of the socket goes down; socket.io keeps the socket and its
\* callbacks and will reconnect it
Drop(s) ==
    /\ sess[s].conn = "on"
    /\ NoResponsePending
    /\ sess' = [sess EXCEPT ![s] = [@ EXCEPT !.conn = "lost"]]
    /\ ServerUnchanged

\* socket.io has reconnected the socket: the 'connect' callback logs and
\* emits join_user_room
Reconnect(s) ==
    /\ sess[s].conn = "lost"
    /\ NoResponsePending
    /\ sess' = [sess EXCEPT ![s] = [@ EXCEPT !.conn = "on"]]
    /\ ServerUnchanged

\* ------------------------------- TaskProvider mutation handlers, ApiClient
\* variant: the handler shows the error and returns
Settle_Swallow(s, r) ==
    /\ reqs[r].pc = "done"
    /\ reqs[r].op \in {"create", "update", "delete", "add", "remove"}
    /\ reqs[r].user = SessionUser(s)
    /\ sess[s].toast = "none"
    /\ \E lost \in BOOLEAN :
         LET ok == ~lost /\ reqs[r].res.status \in 200..299
         IN sess' = [sess EXCEPT ![s] =
                       [@ EXCEPT !.toast = IF ok THEN "success" ELSE "error",
                                 !.thrown = FALSE]]
    /\ reqs' = [reqs EXCEPT ![r] = Idle]
    /\ UNCHANGED <<tasks, grants, nextTaskId, nextGrantId, now, events>>

\* the response of a mutation reaches handleCreateTask .. handleRemoveCollaborator
\* through ApiClient.request, or is lost on the way (fetch throws):
\*   response.ok: toast.success, the handler returns;
\*   otherwise request throws, the handler shows toast.error and rethrows
Settle(s, r) ==
    /\ reqs[r].pc = "done"
    /\ reqs[r].op \in {"create", "update", "delete", "add", "remove"}
    /\ reqs[r].user = SessionUser(s)
    /\ sess[s].toast = "none"
    /\ \E lost \in BOOLEAN :
         LET ok == ~lost /\ reqs[r].res.status \in 200..299
         IN sess' = [sess EXCEPT ![s] =
                       [@ EXCEPT !.toast = IF ok THEN "success" ELSE "error",
                                 !.thrown = ~ok]]
    /\ reqs' = [reqs EXCEPT ![r] = Idle]
    /\ UNCHANGED <<tasks, grants, nextTaskId, nextGrantId, now, events>>

\* fetch throws before the request reaches the server
FailToSend(s) ==
    /\ sess[s].toast = "none"
    /\ \A r \in Slots : reqs[r] = Idle
    /\ sess' = [sess EXCEPT ![s] = [@ EXCEPT !.toast = "error", !.thrown = TRUE]]
    /\ ServerUnchanged

\* the toast goes away and the caller has dealt with the outcome
Dismiss(s) ==
    /\ sess[s].toast # "none"
    /\ NoResponsePending
    /\ sess' = [sess EXCEPT ![s] = [@ EXCEPT !.toast = "none", !.thrown = FALSE]]
    /\ ServerUnchanged

Page(s) ==
    \/ SignIn(s)
    \/ Disconnect(s)
    \/ Drop(s)
    \/ Reconnect(s)
    \/ LoadDone(s)
    \/ Handle(s)

\* ------------------------------------------------------------------- inputs
LongTitle == [i \in 1..(TitleMaxLen + 1) |-> "x"]

CreateBodies ==
    { [title |-> <<"a">>],
      [title |-> <<" ", "b", " ">>, status |-> "in_progress", priority |-> "high",
       due_date |-> "2026-01-01", created_by |-> "u3"],
      [title |-> <<" ">>],
      [status |-> "pending"],
      [title |-> LongTitle],
      [title |-> <<"a">>, status |-> "done"] }

UpdateBodies ==
    { [status |-> "completed"],
      [title |-> <<" ", "c">>, priority |-> "low"],
      [created_by |-> "u3"],
      [status |-> "done"],
      [title |-> <<" ">>] }

AddBodies ==
    [email : WellFormedEmails, permission : Permissions]
    \cup { [email |-> "not-an-email", permission |-> "read"],
           [email |-> "u2@x.io", permission |-> "admin"] }

\* --------------------------------------------------------------------- spec
Init ==
    /\ tasks = {}
    /\ grants = {}
    /\ nextTaskId = 1
    /\ nextGrantId = 1
    /\ now = 1
    /\ events = <<>>
    /\ reqs = [r \in Slots |-> Idle]
    /\ sess = [s \in Sessions |-> NewSession]

Arrive(r) ==
    \/ \E u \in Users, body \in CreateBodies : CreateArrive(r, u, body)
    \/ \E u \in Users, id \in TaskIds, body \in UpdateBodies : UpdateArrive(r, u, id, body)
    \/ \E u \in Users, id \in TaskIds : DeleteArrive(r, u, id)
    \/ \E u \in Users, id \in TaskIds, body \in AddBodies : AddArrive(r, u, id, body)
    \/ \E u \in Users, id \in TaskIds, userId \in Users : RemoveArrive(r, u, id, userId)
    \/ \E u \in Users : ListArrive(r, u)

\* the continuations of the handlers after their awaits
Work(r) ==
    \/ CreateEmit(r)
    \/ UpdateWrite(r)
    \/ UpdateEmit(r)
    \/ DeleteWrite(r)
    \/ DeleteEmit(r)
    \/ AddFindUser(r)
    \/ AddExisting(r)
    \/ AddInsert(r)
    \/ AddEmit(r)
    \/ RemoveWrite(r)
    \/ RemoveEmit(r)

Continue(r) == Work(r) \/ Respond(r)

\* Spec: the requests are served one after the other (every handler runs to
\* its response before the next request arrives).
Next == Arrive(1) \/ Continue(1)

Spec == Init /\ [][Next]_vars

\* SpecConc: two requests overlap at their awaits.  It starts in the state
\* Spec reaches when u1 has created the task [title |-> <<"a">>], and the
\* overlapping requests are about that task or create another one.
FirstTask ==
    [id |-> 1, title |-> <<"a">>, description |-> <<>>, status |-> "pending",
     priority |-> "medium", due_date |-> NullDate, created_by |-> "u1",
     created_at |-> 1, updated_at |-> 1]

InitConc ==
    /\ tasks = {FirstTask}
    /\ grants = {}
    /\ nextTaskId = 2
    /\ nextGrantId = 1
    /\ now = 2
    /\ events = <<[kind |-> "task_created", taskId |-> 0, payload |-> {FirstTask},
                   userId |-> "", by |-> "u1"]>>
    /\ reqs = [r \in Slots |-> Idle]
    /\ sess = [s \in Sessions |-> NewSession]

ConcCreateBodies == { [title |-> <<"b">>, status |-> "in_progress"] }

ConcUpdateBodies == { [status |-> "completed"] }

ConcAddBodies ==
    { [email |-> "u2@x.io", permission |-> "read"],
      [email |-> "u2@x.io", permission |-> "write"],
      [email |-> "u3@x.io", permission |-> "write"],
      [email |-> "u1@x.io", permission |-> "read"] }

ArriveConc(r) ==
    \/ \E u \in Users, body \in ConcCreateBodies : CreateArrive(r, u, body)
    \/ \E u \in Users, body \in ConcUpdateBodies : UpdateArrive(r, u, 1, body)
    \/ \E u \in Users : DeleteArrive(r, u, 1)
    \/ \E u \in Users, body \in ConcAddBodies : AddArrive(r, u, 1, body)
    \/ \E u \in Users, userId \in {"u2", "u3"} : RemoveArrive(r, u, 1, userId)

NextConc == \E r \in Slots : ArriveConc(r) \/ Continue(r)

SpecConc == InitConc /\ [][NextConc]_vars

\* the state SpecConc starts in is a state of Spec
ReachedInitConc == InitConc

\* SpecRevoke: u2 holds a 'write' grant on the task of u1; updates by u2
\* overlap with u1 taking the grant away and giving it back.  The store is the
\* one Spec reaches after u1 created the task and added u2; events holds the
\* records published from here on.
WriteGrant == [id |-> 1, task_id |-> 1, user_id |-> "u2", permission |-> "write"]

InitRevoke ==
    /\ tasks = {FirstTask}
    /\ grants = {WriteGrant}
    /\ nextTaskId = 2
    /\ nextGrantId = 2
    /\ now = 2
    /\ events = <<>>
    /\ reqs = [r \in Slots |-> Idle]
    /\ sess = [s \in Sessions |-> NewSession]

RevokeAddBodies == { [email |-> "u2@x.io", permission |-> "write"] }

ArriveRevoke(r) ==
    \/ \E body \in ConcUpdateBodies : UpdateArrive(r, "u2", 1, body)
    \/ RemoveArrive(r, "u1", 1, "u2")
    \/ \E body \in RevokeAddBodies : AddArrive(r, "u1", 1, body)

WorkRevoke(r) ==
    \/ UpdateWrite(r)
    \/ UpdateEmit(r)
    \/ RemoveWrite(r)
    \/ RemoveEmit(r)
    \/ AddFindUser(r)
    \/ AddExisting(r)
    \/ AddInsert(r)
    \/ AddEmit(r)
    \/ Respond(r)

NextRevoke == \E r \in Slots : ArriveRevoke(r) \/ WorkRevoke(r)

SpecRevoke == InitRevoke /\ [][NextRevoke]_vars

\* the store SpecRevoke starts with is a store of Spec
ReachedRevokeStore ==
    /\ tasks = {FirstTask}
    /\ grants = {WriteGrant}
    /\ nextTaskId = 2
    /\ nextGrantId = 2
    /\ now = 2
    /\ reqs = [r \in Slots |-> Idle]

\* SpecSearch: the search requests, one at a time.
SearchQueries ==
    { [none |-> ""],
      [q |-> <<>>],
      [q |-> <<"a">>],
      [q |-> <<"a", "b">>],
      [q |-> <<"B", "B">>],
      [q |-> <<"u", "@">>],
      [q |-> <<"@">>],
      [q |-> <<"@", "C">>],
      [q |-> <<"z", "z">>],
      [q |-> <<"_", "_">>],
      [q |-> <<"%", "%">>],
      [q |-> <<"@", "_">>] }

NextSearch ==
    \/ \E u \in DirectoryIds, query \in SearchQueries : SearchArrive(1, u, query)
    \/ Respond(1)

SpecSearch == Init /\ [][NextSearch]_vars

\* SpecSync: the sessions of u1 and u3 connect, load, receive and reconcile
\* while u1 works on the server, one request at a time: u1 creates tasks and
\* updates, shares and deletes the first of them.
SyncCreateBodies == { [title |-> <<"a">>] }

SyncUpdateBodies == { [status |-> "completed"] }

SyncAddBodies == { [email |-> "u3@x.io", permission |-> "read"] }

ArriveSync(r) ==
    \/ \E body \in SyncCreateBodies : CreateArrive(r, "u1", body)
    \/ \E body \in SyncUpdateBodies : UpdateArrive(r, "u1", 1, body)
    \/ DeleteArrive(r, "u1", 1)
    \/ \E body \in SyncAddBodies : AddArrive(r, "u1", 1, body)
    \/ RemoveArrive(r, "u1", 1, "u3")

NextSync ==
    \/ ArriveSync(1)
    \/ Continue(1)
    \/ \E s \in Sessions : Session(s)

SpecSync == Init /\ [][NextSync]_vars

\* SpecClient: the page of u1 issues the mutations, one at a time, some of
\* which the server rejects, and handles their outcome.
ClientCreateBodies == { [title |-> <<"a">>], [status |-> "pending"] }

ClientUpdateBodies == { [status |-> "completed"], [created_by |-> "u3"] }

ClientAddBodies ==
    { [email |-> "u3@x.io", permission |-> "read"],
      [email |-> "nobody@x.io", permission |-> "read"] }

ArriveClient(r) ==
    \/ \E body \in ClientCreateBodies : CreateArrive(r, "u1", body)
    \/ \E body \in ClientUpdateBodies : UpdateArrive(r, "u1", 1, body)
    \/ DeleteArrive(r, "u1", 1)
    \/ \E body \in ClientAddBodies : AddArrive(r, "u1", 1, body)
    \/ RemoveArrive(r, "u1", 1, "u3")

NextClient ==
    \/ ArriveClient(1)
    \/ Work(1)
    \/ Settle("s1", 1)
    \/ FailToSend("s1")
    \/ Dismiss("s1")
    \/ Connect("s1")
    \/ LoadDone("s1")
    \/ Handle("s1")

SpecClient == Init /\ [][NextClient]_vars

\* SpecAuth: one page of u1 signs in and out and loses and regains its
\* transport while u1 creates tasks from elsewhere.
NextAuth ==
    \/ \E body \in SyncCreateBodies : CreateArrive(1, "u1", body)
    \/ CreateEmit(1)
    \/ Respond(1)
    \/ Page("s1")

SpecAuth == Init /\ [][NextAuth]_vars

\* =================================================================== claims
\* error kinds of the responses (the status categories of the API)
ErrorKind(res) ==
    CASE res.status \in {200, 201} -> "Success"
      [] res.status = 403 -> "PermissionDenied"
      [] res.status = 404 -> "NotFound"
      [] res.status = 400 /\ res.error = "User is already a collaborator" -> "AlreadyExists"
      [] res.status = 400 -> "ValidationError"
      [] OTHER -> "StorageUnavailable"

Exists(id) == \E t \in tasks : t.id = id
IsOwner(u, id) == \E t \in tasks : t.id = id /\ t.created_by = u
HoldsGrant(u, id, perm) ==
    \E g \in grants : g.task_id = id /\ g.user_id = u /\ g.permission = perm
HoldsAnyGrant(u, id) == \E g \in grants : g.task_id = id /\ g.user_id = u
MayWrite(u, id) == IsOwner(u, id) \/ HoldsGrant(u, id, "write")

Done(r, op) == reqs[r].pc = "done" /\ reqs[r].op = op
Arrives(r, op) == reqs[r] = Idle /\ reqs'[r].op = op
Steps(r, op, pc) == reqs[r].op = op /\ reqs[r].pc = pc /\ reqs'[r] # reqs[r]
StoreUnchanged == tasks' = tasks /\ grants' = grants
Refused(r, kind) ==
    /\ reqs'[r].pc = "done"
    /\ ErrorKind(reqs'[r].res) = kind
    /\ StoreUnchanged
    /\ events' = events

\* ----------------------------------------------------------------------- C1
\* an update by a principal who is neither owner nor 'write' grantee of the
\* existing task
UpdateByNonWriter(r) ==
    /\ Arrives(r, "update")
    /\ Exists(reqs'[r].id)
    /\ ~MayWrite(reqs'[r].user, reqs'[r].id)

\* the UPDATE statement of an update request runs only for owner or writer
WriteOnlyByWriter(r) ==
    Steps(r, "update", "update") => MayWrite(reqs[r].user, reqs[r].id)

\* C1 (as claimed): an update changes the stored task only if the principal
\* is the owner or holds a 'write' grant; for any other principal the call
\* fails with PermissionDenied, the store is unchanged and no record is
\* published.
C1_UpdateDeniedAlways ==
    [][\A r \in Slots :
        /\ WriteOnlyByWriter(r)
        /\ UpdateByNonWriter(r) => Refused(r, "PermissionDenied")]_vars

\* C1 (amended): as above, but the refusal is ValidationError when a field of
\* the request violates its constraint, PermissionDenied otherwise.
C1_UpdateRefusedForNonWriter ==
    [][\A r \in Slots :
        /\ WriteOnlyByWriter(r)
        /\ UpdateByNonWriter(r) =>
             Refused(r, IF UpdateValid(reqs'[r].sent) THEN "PermissionDenied"
                        ELSE "ValidationError")]_vars

\* a 'read' grantee's update of an existing task has just been refused 403
C1_Witness ==
    \E r \in Slots :
        /\ Done(r, "update")
        /\ reqs[r].res.status = 403
        /\ Exists(reqs[r].id)
        /\ HoldsGrant(reqs[r].user, reqs[r].id, "read")

\* ----------------------------------------------------------------------- C2
OwnerOps == {"delete", "add", "remove"}

CallByNonOwner(r) ==
    /\ reqs[r] = Idle
    /\ reqs'[r].op \in OwnerOps
    /\ Exists(reqs'[r].id)
    /\ ~IsOwner(reqs'[r].user, reqs'[r].id)

\* a statement of delete / addCollaborator / removeCollaborator that changes
\* the store runs only for the owner
StoreChangedOnlyByOwner(r) ==
    (reqs[r].op \in OwnerOps /\ reqs'[r] # reqs[r] /\ ~StoreUnchanged)
        => IsOwner(reqs[r].user, reqs[r].id)

\* C2 (as claimed): delete, addCollaborator and removeCollaborator on an
\* existing task succeed only for the owner; for a non-owner each fails with
\* PermissionDenied and changes neither tasks nor grants.
C2_NonOwnerDeniedAlways ==
    [][\A r \in Slots :
        /\ StoreChangedOnlyByOwner(r)
        /\ CallByNonOwner(r) => Refused(r, "PermissionDenied")]_vars

\* C2 (amended): as above, but addCollaborator with a malformed email or
\* permission fails with ValidationError instead.
C2_NonOwnerRefused ==
    [][\A r \in Slots :
        /\ StoreChangedOnlyByOwner(r)
        /\ CallByNonOwner(r) =>
             Refused(r, IF reqs'[r].op = "add" /\ ~AddValid(reqs'[r].sent)
                        THEN "ValidationError" ELSE "PermissionDenied")]_vars

\* a 'write' collaborator's delete has just been refused 403
C2_Witness ==
    \E r \in Slots :
        /\ Done(r, "delete")
        /\ reqs[r].res.status = 403
        /\ HoldsGrant(reqs[r].user, reqs[r].id, "write")

\* ----------------------------------------------------------------------- C3
InList(u, id) == \E i \in DOMAIN List(u) : List(u)[i].id = id

\* C3: whenever the permission query of update returns a row for (P, T), the
\* task T is in list(P).
C3_WriteImpliesRead ==
    \A u \in Users, id \in TaskIds : PermissionQuery(id, u) # {} => InList(u, id)

\* a 'write' collaborator (not the owner) has just listed and sees the task
C3_Witness ==
    \E r \in Slots, id \in TaskIds :
        /\ Done(r, "list")
        /\ PermissionQuery(id, reqs[r].user) # {}
        /\ ~IsOwner(reqs[r].user, id)
        /\ \E i \in DOMAIN reqs[r].list : reqs[r].list[i].id = id

\* ----------------------------------------------------------------------- C4
\* C4: no task has a collaborator grant whose principal is the task's owner.
C4_OwnerNeverCollaborator ==
    \A g \in grants : ~IsOwner(g.user_id, g.task_id)

\* ----------------------------------------------------------------------- C5
\* C5: at most one collaborator grant per (task, principal) pair, also when
\* two addCollaborator requests for the same pair interleave.
C5_OneGrantPerPair ==
    \A g, h \in grants :
        (g.task_id = h.task_id /\ g.user_id = h.user_id) => g = h

\* two overlapping addCollaborator requests for one pair both passed the
\* existence check; one has inserted, the other's INSERT was just rejected
C5_Witness ==
    \E r, o \in Slots :
        /\ r # o
        /\ reqs[r].op = "add" /\ reqs[r].pc = "emit"
        /\ Done(o, "add") /\ reqs[o].res.status = 500
        /\ reqs[r].id = reqs[o].id
        /\ reqs[r].body.email = reqs[o].body.email

\* ----------------------------------------------------------------------- C6
Grantee(r) == CollaboratorUser(reqs[r]).id

\* C6: addCollaborator by the owner for a principal who already holds a grant
\* fails with AlreadyExists, leaves the grants as they are and publishes
\* nothing; when no grant exists it succeeds: exactly one grant with the
\* requested permission is stored and collaborator_added is published.
C6_NoSilentUpgrade ==
    [][\A r \in Slots :
        /\ Steps(r, "add", "existing") =>
             IF HoldsAnyGrant(Grantee(r), reqs[r].id)
             THEN Refused(r, "AlreadyExists")
             ELSE reqs'[r].pc = "insert" /\ StoreUnchanged
        /\ Steps(r, "add", "insert") =>
             /\ reqs'[r].pc = "emit"
             /\ tasks' = tasks
             /\ \E g \in grants' :
                  /\ grants' = grants \cup {g}
                  /\ g \notin grants
                  /\ g.task_id = reqs[r].id
                  /\ g.user_id = Grantee(r)
                  /\ g.permission = reqs[r].body.permission
        /\ Steps(r, "add", "emit") =>
             /\ reqs'[r].pc = "done"
             /\ reqs'[r].res.status = 201
             /\ StoreUnchanged
             /\ Len(events') = Len(events) + 1
             /\ events'[Len(events')].kind = "collaborator_added"]_vars

\* the owner asked for another permission than the one the grantee holds and
\* was just refused
C6_Witness ==
    \E r \in Slots :
        /\ Done(r, "add")
        /\ ErrorKind(reqs[r].res) = "AlreadyExists"
        /\ \E g \in grants :
             /\ g.task_id = reqs[r].id
             /\ g.user_id = Grantee(r)
             /\ g.permission # reqs[r].body.permission

\* ----------------------------------------------------------------------- C7
Deleted(id) ==
    \E i \in DOMAIN events : events[i].kind = "task_deleted" /\ events[i].taskId = id

\* C7: a delete of a task that an earlier delete removed fails with NotFound.
C7_SecondDeleteNotFound ==
    \A r \in Slots :
        (Done(r, "delete") /\ Deleted(reqs[r].id) /\ reqs[r].res.status # 200)
            => ErrorKind(reqs[r].res) = "NotFound"

\* ----------------------------------------------------------------------- C8
PairGrants(r) ==
    {g \in grants : g.task_id = reqs[r].id /\ g.user_id = reqs[r].body.userId}

\* C8: removeCollaborator by the owner succeeds whether or not the pair holds
\* a grant; it removes the grants of the pair and nothing else, so a second
\* call for the same pair changes nothing and succeeds again.
C8_RemoveIdempotent ==
    [][\A r \in Slots :
        /\ (Arrives(r, "remove") /\ IsOwner(reqs'[r].user, reqs'[r].id)) =>
             reqs'[r].pc = "remove" /\ StoreUnchanged
        /\ Steps(r, "remove", "remove") =>
             /\ reqs'[r].pc = "emit"
             /\ tasks' = tasks
             /\ grants' = grants \ PairGrants(r)
             /\ (PairGrants(r) = {} => grants' = grants)
        /\ Steps(r, "remove", "emit") =>
             /\ reqs'[r].pc = "done"
             /\ reqs'[r].res.status = 200
             /\ StoreUnchanged]_vars

\* the second of two successive removals of one pair has just succeeded
C8_Witness ==
    \E r \in Slots :
        /\ Done(r, "remove")
        /\ reqs[r].res.status = 200
        /\ Len(events) >= 2
        /\ LET a == events[Len(events) - 1]
               b == events[Len(events)]
           IN /\ a.kind = "collaborator_removed" /\ b.kind = "collaborator_removed"
              /\ a.taskId = reqs[r].id /\ b.taskId = reqs[r].id
              /\ a.userId = reqs[r].body.userId /\ b.userId = reqs[r].body.userId

\* ----------------------------------------------------------------------- C9
\* C9: an update with valid fields of a task id that is not in the store
\* fails with NotFound.
C9_UpdateAbsentNotFound ==
    \A r \in Slots :
        (Done(r, "update") /\ UpdateValid(reqs[r].body) /\ ~Exists(reqs[r].id))
            => ErrorKind(reqs[r].res) = "NotFound"

\* ---------------------------------------------------------------------- C10
\* C10: every collaborator grant references an existing task (a deleted task
\* leaves no grant behind).
C10_GrantsReferenceTasks ==
    \A g \in grants : Exists(g.task_id)

\* a task that had been shared has been deleted
C10_Witness ==
    \E i, j \in DOMAIN events :
        /\ i < j
        /\ events[i].kind = "collaborator_added"
        /\ events[j].kind = "task_deleted"
        /\ events[i].taskId = events[j].taskId
        /\ ~Exists(events[j].taskId)

\* ---------------------------------------------------------------------- C11
MutatingOps == {"create", "update", "delete", "add", "remove"}

KindOf(op) ==
    CASE op = "create" -> "task_created"
      [] op = "update" -> "task_updated"
      [] op = "delete" -> "task_deleted"
      [] op = "add" -> "collaborator_added"
      [] op = "remove" -> "collaborator_removed"

Succeeds(r) ==
    /\ reqs[r].op \in MutatingOps
    /\ reqs[r].pc # "done"
    /\ reqs'[r].pc = "done"
    /\ ErrorKind(reqs'[r].res) = "Success"

\* C11: the step that answers a mutating call with success publishes one
\* change record, of the kind of the operation and naming the caller, and no
\* other step of any handler publishes anything; the record is therefore in
\* the log when the response leaves and it is the only one of that call.
C11_OneRecordPerSuccess ==
    [][\A r \in Slots :
        reqs'[r] # reqs[r] =>
          IF Succeeds(r)
          THEN /\ Len(events') = Len(events) + 1
               /\ SubSeq(events', 1, Len(events)) = events
               /\ events'[Len(events')].kind = KindOf(reqs[r].op)
               /\ events'[Len(events')].by = reqs[r].user
          ELSE events' = events]_vars

\* the owner's delete has just been answered 200 and its record is the last
C11_Witness ==
    \E r \in Slots :
        /\ Done(r, "delete")
        /\ reqs[r].res.status = 200
        /\ Len(events) >= 2
        /\ events[Len(events)].kind = "task_deleted"
        /\ events[Len(events)].by = reqs[r].user
        /\ events[Len(events)].taskId = reqs[r].id

\* ---------------------------------------------------------------------- C12
Rejected(r) ==
    /\ reqs[r].pc # "done"
    /\ reqs'[r].pc = "done"
    /\ reqs'[r].op \in MutatingOps
    /\ ErrorKind(reqs'[r].res) # "Success"

NoFieldToUpdate(body) == DOMAIN body \cap UpdatableKeys = {}

\* C12: a rejected mutating call changes neither tasks nor grants and
\* publishes nothing.  The rejecting step itself leaves store and log alone;
\* a step that does write moves its handler to the emit, which answers
\* success, so no call that wrote is rejected afterwards.  The rejections
\* named by the claim are answered with the kinds it names.
C12_RejectedChangesNothing ==
    [][\A r \in Slots :
        reqs'[r] # reqs[r] =>
          /\ Rejected(r) => (StoreUnchanged /\ events' = events)
          /\ ~StoreUnchanged => reqs'[r].pc = "emit"
          /\ reqs[r].pc = "emit" =>
               (reqs'[r].pc = "done" /\ ErrorKind(reqs'[r].res) = "Success")
          /\ (Arrives(r, "create") /\ ~CreateValid(reqs'[r].sent)) =>
               Refused(r, "ValidationError")
          /\ (Arrives(r, "update") /\ ~UpdateValid(reqs'[r].sent)) =>
               Refused(r, "ValidationError")
          /\ (Arrives(r, "update") /\ UpdateValid(reqs'[r].sent)
                /\ MayWrite(reqs'[r].user, reqs'[r].id)
                /\ NoFieldToUpdate(reqs'[r].sent)) =>
               (Refused(r, "ValidationError")
                  /\ reqs'[r].res.error = "No valid fields to update")
          /\ (Steps(r, "add", "finduser") /\ UserQuery(reqs[r].body.email) = {}) =>
               Refused(r, "NotFound")
          /\ (Arrives(r, "update") /\ UpdateValid(reqs'[r].sent)
                /\ ~MayWrite(reqs'[r].user, reqs'[r].id)) =>
               Refused(r, "PermissionDenied")
          /\ (reqs[r] = Idle /\ reqs'[r].op = "add" /\ AddValid(reqs'[r].sent)
                /\ ~IsOwner(reqs'[r].user, reqs'[r].id)) =>
               Refused(r, "PermissionDenied")
          /\ (reqs[r] = Idle /\ reqs'[r].op \in {"delete", "remove"}
                /\ ~IsOwner(reqs'[r].user, reqs'[r].id)) =>
               Refused(r, "PermissionDenied")]_vars

\* a writer's update that carries no recognised field has just been refused
C12_Witness ==
    \E r \in Slots :
        /\ Done(r, "update")
        /\ reqs[r].res = [status |-> 400, error |-> "No valid fields to update"]
        /\ MayWrite(reqs[r].user, reqs[r].id)

\* an addCollaborator for an unregistered email has just been refused
C12_WitnessNotFound ==
    \E r \in Slots :
        /\ Done(r, "add")
        /\ ErrorKind(reqs[r].res) = "NotFound"
        /\ IsOwner(reqs[r].user, reqs[r].id)

\* ---------------------------------------------------------------------- C13
Visible(u) == {t \in tasks : IsOwner(u, t.id) \/ HoldsAnyGrant(u, t.id)}

TaskOfRow(row) == [k \in DOMAIN row \ {"creator_email", "collaborators"} |-> row[k]]

\* C13: list(P) holds exactly the tasks P owns or holds a grant on, each
\* once, newest created first, and every row's collaborators is an array
\* (never null) that is empty when the task has no grant; a list response
\* carries that list.
C13_ListOwnedOrGranted ==
    /\ \A u \in Users :
         LET l == List(u)
         IN /\ {TaskOfRow(l[i]) : i \in DOMAIN l} = Visible(u)
            /\ Len(l) = Cardinality(Visible(u))
            /\ \A i, j \in DOMAIN l : i # j => l[i].id # l[j].id
            /\ \A i, j \in DOMAIN l : i < j => l[i].created_at >= l[j].created_at
            /\ \A i \in DOMAIN l :
                 /\ ~l[i].collaborators.isNull
                 /\ l[i].collaborators.items =
                      {[id |-> g.id, user_id |-> g.user_id,
                        permission |-> g.permission] :
                          g \in {x \in grants : x.task_id = l[i].id}}
    /\ \A r \in Slots : Done(r, "list") => reqs[r].list = List(reqs[r].user)

\* a principal has just listed two tasks, the newer first, both without grants
C13_Witness ==
    \E r \in Slots :
        /\ Done(r, "list")
        /\ Len(reqs[r].list) = 2
        /\ reqs[r].list[1].created_at > reqs[r].list[2].created_at
        /\ reqs[r].list[1].collaborators = EmptyJsonArray

\* a principal has just listed a task it does not own, with the grant in
\* the task's collaborators
C13_WitnessGranted ==
    \E r \in Slots :
        /\ Done(r, "list")
        /\ Len(reqs[r].list) = 1
        /\ reqs[r].list[1].created_by # reqs[r].user
        /\ \E c \in reqs[r].list[1].collaborators.items : c.user_id = reqs[r].user

\* ---------------------------------------------------------------------- C14
\* the INSERT of a create has just committed
Created(r) == Arrives(r, "create") /\ reqs'[r].pc = "emit"

\* the row list(P) returns for the task just created
CreatedRows(u) ==
    LET l == List(u)'
    IN {l[i] : i \in {j \in DOMAIN l : l[j].id = nextTaskId}}

RoundTrip(r, row, title) ==
    LET sent == reqs'[r].sent
    IN /\ row.created_by = reqs'[r].user
       /\ row.title = title
       /\ row.description =
            IF Has(sent, "description") THEN sent.description ELSE <<>>
       /\ row.status = IF Has(sent, "status") THEN sent.status ELSE "pending"
       /\ row.priority = IF Has(sent, "priority") THEN sent.priority ELSE "medium"
       /\ row.due_date =
            IF Has(sent, "due_date") THEN NewDate(sent.due_date) ELSE NullDate
       /\ row.collaborators = EmptyJsonArray

\* C14 as stated: after a successful create, list(principal) contains the
\* created task with created_by the caller, every supplied field (the title
\* included) as it was sent, the defaults for omitted status and priority,
\* and no collaborators.
C14_CreateRoundTripIntact ==
    [][\A r \in Slots, u \in Users : (Created(r) /\ reqs'[r].user = u) =>
          /\ Cardinality(CreatedRows(u)) = 1
          /\ \A row \in CreatedRows(u) : RoundTrip(r, row, reqs'[r].sent.title)]_vars

\* C14 amended: as above, but the title comes back without its leading and
\* trailing whitespace (and due_date as the timestamp of the date sent).
C14_CreateRoundTrip ==
    [][\A r \in Slots, u \in Users : (Created(r) /\ reqs'[r].user = u) =>
          /\ Cardinality(CreatedRows(u)) = 1
          /\ \A row \in CreatedRows(u) :
                RoundTrip(r, row, Trim(reqs'[r].sent.title))]_vars

\* a create whose body names another owner and pads the title has been
\* answered 201, and the caller's list holds the task as the caller's own,
\* trimmed
C14_Witness ==
    \E r \in Slots :
        /\ Done(r, "create")
        /\ reqs[r].res.status = 201
        /\ Has(reqs[r].sent, "created_by")
        /\ reqs[r].sent.created_by # reqs[r].user
        /\ reqs[r].sent.title # Trim(reqs[r].sent.title)
        /\ \E i \in DOMAIN List(reqs[r].user) :
              /\ {TaskOfRow(List(reqs[r].user)[i])} = reqs[r].rows
              /\ List(reqs[r].user)[i].created_by = reqs[r].user
              /\ List(reqs[r].user)[i].title = Trim(reqs[r].sent.title)

\* a create with only a title has been answered 201 and is listed with the
\* defaults
C14_WitnessDefaults ==
    \E r \in Slots :
        /\ Done(r, "create")
        /\ reqs[r].res.status = 201
        /\ DOMAIN reqs[r].sent = {"title"}
        /\ \E i \in DOMAIN List(reqs[r].user) :
              /\ {TaskOfRow(List(reqs[r].user)[i])} = reqs[r].rows
              /\ List(reqs[r].user)[i].status = "pending"
              /\ List(reqs[r].user)[i].priority = "medium"

\* ---------------------------------------------------------------------- C15
\* the fields of the request that the handler may write
Present(r) == DOMAIN reqs[r].sent \cap UpdatableKeys

\* row n is row t after the update held by slot r
UpdatedFrom(r, t, n) ==
    /\ DOMAIN n = DOMAIN t
    /\ \A k \in DOMAIN t :
         IF k \in Present(r) THEN n[k] = SetValue(reqs[r].body, k)
         ELSE IF k = "updated_at" THEN n[k] > t[k]
         ELSE n[k] = t[k]

\* C15: the write of an update sets, on the addressed task, the updatable
\* fields present in the request and refreshes updated_at; every other field
\* of it, every other task and every grant stay as they were.  No step of
\* any operation changes id, created_by or created_at of a stored task.
C15_UpdateFrame ==
    [][/\ \A r \in Slots : Steps(r, "update", "update") =>
            /\ grants' = grants
            /\ Cardinality(tasks') = Cardinality(tasks)
            /\ \A t \in tasks :
                 IF t.id = reqs[r].id
                 THEN \E n \in tasks' : n.id = t.id /\ UpdatedFrom(r, t, n)
                 ELSE t \in tasks'
       /\ \A t \in tasks, n \in tasks' :
            n.id = t.id => (n.created_by = t.created_by /\ n.created_at = t.created_at)
      ]_vars

\* an update carrying title and priority only has been written: the task has
\* the new title and priority, still its status 'in_progress' and due date,
\* and a later updated_at
C15_Witness ==
    \E r \in Slots, t \in tasks :
        /\ reqs[r].op = "update"
        /\ reqs[r].pc = "emit"
        /\ DOMAIN reqs[r].sent = {"title", "priority"}
        /\ t.id = reqs[r].id
        /\ t.title = Trim(reqs[r].sent.title)
        /\ t.priority = reqs[r].sent.priority
        /\ t.status = "in_progress"
        /\ t.due_date # NullDate
        /\ t.updated_at > t.created_at
        /\ t.created_by # reqs[r].user

\* ---------------------------------------------------------------------- C16
UpdateRecords(id) ==
    {i \in DOMAIN events :
        events[i].kind = "task_updated" /\ events[i].taskId = id}

\* C16: the task_updated records of one task are published in the order in
\* which their writes committed: a record published later carries a strictly
\* greater updated_at.
C16_PublishedInCommitOrder ==
    \A id \in TaskIds : \A i, j \in UpdateRecords(id) :
        i < j => \A a \in events[i].payload, b \in events[j].payload :
                    a.updated_at < b.updated_at

\* ---------------------------------------------------------------------- C17
\* C17: a step that publishes a record appends that record to the inbox of
\* every session connected at that moment, whoever its principal is, and
\* changes nothing of a session that is not connected; no other step of the
\* server puts anything into an inbox.
C17_FanOutUnfiltered ==
    [][\A s \in Sessions :
         IF Len(events') > Len(events)
         THEN IF sess[s].conn = "on"
              THEN sess'[s] = [sess[s] EXCEPT !.inbox = @ \o Published]
              ELSE sess'[s] = sess[s]
         ELSE \A i \in DOMAIN sess'[s].inbox :
                 \E j \in DOMAIN sess[s].inbox : sess'[s].inbox[i] = sess[s].inbox[j]
      ]_vars

\* the session of u3, who neither owns task 1 nor holds a grant on it, has
\* the task_updated record of task 1 in its inbox, and the session of the
\* owner, not connected, has nothing
C17_Witness ==
    \E s, o \in Sessions :
        /\ sess[s].conn = "on"
        /\ ~IsOwner(SessionUser(s), 1)
        /\ ~HoldsAnyGrant(SessionUser(s), 1)
        /\ \E i \in DOMAIN sess[s].inbox :
              sess[s].inbox[i].kind = "task_updated" /\ sess[s].inbox[i].taskId = 1
        /\ IsOwner(SessionUser(o), 1)
        /\ sess[o].conn # "on"
        /\ sess[o].inbox = <<>>
        /\ sess[o].last = "none"

\* ---------------------------------------------------------------------- C19
\* C19: the local task list of a session never holds two entries with the
\* same task id.
C19_LocalIdsDistinct ==
    \A s \in Sessions : \A i, j \in DOMAIN sess[s].local :
        i # j => sess[s].local[i].id # sess[s].local[j].id

\* ---------------------------------------------------------------------- C20
\* the listener of task_updated runs in session s on a record that has a task
HandlesUpdate(s) ==
    /\ sess[s].conn = "on"
    /\ sess[s].inbox # <<>>
    /\ Head(sess[s].inbox).kind = "task_updated"
    /\ Head(sess[s].inbox).payload # {}
    /\ sess'[s].conn = "on"
    /\ sess'[s].inbox = Tail(sess[s].inbox)

\* C20: applying a task_updated record gives the local task with the
\* record's id the record's value in every field the record carries, keeps
\* its other fields, keeps every other local task, and keeps the length and
\* order of the local list (no task is added).
C20_UpdateMerge ==
    [][\A s \in Sessions : HandlesUpdate(s) =>
          LET old == sess[s].local
              new == sess'[s].local
          IN \A u \in Head(sess[s].inbox).payload :
               /\ Len(new) = Len(old)
               /\ \A i \in DOMAIN old :
                    IF old[i].id = u.id
                    THEN /\ DOMAIN new[i] = DOMAIN old[i] \cup DOMAIN u
                         /\ \A k \in DOMAIN u : new[i][k] = u[k]
                         /\ \A k \in DOMAIN old[i] \ DOMAIN u : new[i][k] = old[i][k]
                    ELSE new[i] = old[i]]_vars

\* a session has just merged a task_updated record into a task it had loaded
\* with its collaborators: the status is the record's, the collaborators are
\* still there, and the other local task is as it was created
C20_Witness ==
    \E s \in Sessions :
        /\ sess[s].last = "task_updated"
        /\ Len(sess[s].local) = 2
        /\ \E i, j \in DOMAIN sess[s].local :
              /\ sess[s].local[i].id = 1
              /\ sess[s].local[i].status = "completed"
              /\ sess[s].local[i].updated_at > sess[s].local[i].created_at
              /\ "collaborators" \in DOMAIN sess[s].local[i]
              /\ sess[s].local[j].id = 2
              /\ sess[s].local[j].status = "pending"

\* a session whose local list is empty has just handled a task_updated
\* record: the list is still empty
C20_WitnessAbsent ==
    \E s \in Sessions :
        /\ sess[s].last = "task_updated"
        /\ sess[s].local = <<>>
        /\ \E i \in DOMAIN events : events[i].kind = "task_updated" /\ events[i].payload # {}

\* ---------------------------------------------------------------------- C18
\* text contains q, without regard to case
Contains(text, q) ==
    \E i \in 1..(Len(text) - Len(q) + 1) :
        \A k \in 1..Len(q) : Lower(text[i + k - 1]) = Lower(q[k])

ShortQuery(query) == ~Has(query, "q") \/ Len(query.q) < MinQueryLen

\* C18: a search with a query shorter than 2 characters (or none) returns
\* nothing; any other search returns at most 10 principals, none of them the
\* requester, each containing the query in its email or name without regard
\* to case.
C18_SearchContract ==
    \A r \in Slots : Done(r, "search") =>
        /\ ShortQuery(reqs[r].sent) => reqs[r].rows = {}
        /\ Cardinality(reqs[r].rows) <= SearchLimit
        /\ \A p \in reqs[r].rows :
             /\ p.id # reqs[r].user
             /\ ~ShortQuery(reqs[r].sent) =>
                  (Contains(p.email, reqs[r].sent.q) \/ Contains(p.name, reqs[r].sent.q))

\* the parts of C18 the handler keeps: short queries return nothing, at most
\* 10 principals come back, the requester is never among them, and a query
\* without the characters % and _ returns only principals that contain it
C18_SearchContractLiteral ==
    \A r \in Slots : Done(r, "search") =>
        /\ ShortQuery(reqs[r].sent) => reqs[r].rows = {}
        /\ Cardinality(reqs[r].rows) <= SearchLimit
        /\ \A p \in reqs[r].rows :
             /\ p.id # reqs[r].user
             /\ (~ShortQuery(reqs[r].sent)
                   /\ \A k \in DOMAIN reqs[r].sent.q : reqs[r].sent.q[k] \notin {"%", "_"}) =>
                  (Contains(p.email, reqs[r].sent.q) \/ Contains(p.name, reqs[r].sent.q))

\* ---------------------------------------------------------------------- C21
\* session s runs the listener of a record of the given kind
Handles(s, kind) ==
    /\ sess[s].conn = "on"
    /\ sess[s].inbox # <<>>
    /\ Head(sess[s].inbox).kind = kind
    /\ sess'[s].conn = "on"
    /\ sess'[s].inbox = Tail(sess[s].inbox)

\* the entries of a local list whose id is not id, in their order
Without(local, id) == SelectSeq(local, LAMBDA t : t.id # id)

\* C21: applying a task_deleted record leaves the local list without the
\* entries of that id and with every other entry, in order; applying the
\* same task_deleted or task_updated record once more to the list it has
\* produced gives that list again.
C21_DeleteExactAndIdempotent ==
    [][\A s \in Sessions :
         /\ Handles(s, "task_deleted") =>
              LET id == Head(sess[s].inbox).taskId
              IN /\ sess'[s].local = Without(sess[s].local, id)
                 /\ \A i \in DOMAIN sess'[s].local : sess'[s].local[i].id # id
                 /\ TaskDeleted(sess'[s].local, id) = sess'[s].local
         /\ Handles(s, "task_updated") =>
              \A u \in Head(sess[s].inbox).payload :
                 TaskUpdated(sess'[s].local, u) = sess'[s].local]_vars

\* a session that had received the records of two creates has just applied
\* task_deleted of task 1: only task 2 is left
C21_Witness ==
    \E s \in Sessions :
        /\ sess[s].last = "task_deleted"
        /\ Len(sess[s].local) = 1
        /\ sess[s].local[1].id = 2
        /\ "collaborators" \notin DOMAIN sess[s].local[1]
        /\ ~Exists(1)

\* ---------------------------------------------------------------------- C22
\* nothing is on its way to session s and no request is being served
Quiescent(s) ==
    /\ sess[s].conn = "on"
    /\ sess[s].inbox = <<>>
    /\ sess[s].fetches = {}
    /\ \A r \in Slots : reqs[r] = Idle

InLocal(s, id) == \E i \in DOMAIN sess[s].local : sess[s].local[i].id = id

\* the first half of C22: the listener of a collaborator record leaves the
\* local list alone and starts a fetch of list(P); the response of a fetch
\* replaces the local list
C22_RefetchNotPatch ==
    [][\A s \in Sessions :
         /\ (Handles(s, "collaborator_added") \/ Handles(s, "collaborator_removed")) =>
              /\ sess'[s].local = sess[s].local
              /\ sess'[s].fetches = sess[s].fetches \cup {List(SessionUser(s))}
         /\ (sess'[s].fetches # sess[s].fetches /\ sess'[s].fetches \subseteq sess[s].fetches) =>
              /\ sess'[s].local \in sess[s].fetches
              /\ sess'[s].fetches = sess[s].fetches \ {sess'[s].local}]_vars

\* C22: a connected session to which everything has been delivered holds
\* every task its principal has a grant on.
C22_GrantedSeesTask ==
    \A s \in Sessions, id \in TaskIds :
        (Quiescent(s) /\ HoldsAnyGrant(SessionUser(s), id)) => InLocal(s, id)

\* ---------------------------------------------------------------------- C23
\* C23: every step that brings the socket of a session to connected, the
\* first connection as well as a reconnection after the transport was lost,
\* starts a fetch of list(P).
C23_FetchOnEveryConnect ==
    [][\A s \in Sessions :
         (sess[s].conn # "on" /\ sess'[s].conn = "on") =>
            sess'[s].fetches = sess[s].fetches \cup {List(SessionUser(s))}]_vars

\* ---------------------------------------------------------------------- C24
\* the response of a mutating request of session s is taken off the server
Answered(s, r) ==
    /\ reqs[r].pc = "done"
    /\ reqs[r].op \in MutatingOps
    /\ reqs[r].user = SessionUser(s)
    /\ reqs'[r] = Idle

Untouched(s) ==
    /\ sess'[s].local = sess[s].local
    /\ sess'[s].fetches = sess[s].fetches
    /\ sess'[s].inbox = sess[s].inbox

Commits(r) ==
    /\ reqs[r].op \in {"update", "delete", "add", "remove"}
    /\ reqs'[r] # reqs[r]
    /\ tasks' # tasks \/ grants' # grants

\* the caller of r passes the permission test of r's operation on the store
\* as it is now
AuthorizedNow(r) ==
    IF reqs[r].op = "update"
    THEN PermissionQuery(reqs[r].id, reqs[r].user) # {}
    ELSE OwnerQuery(reqs[r].id, reqs[r].user) # {}

\* C25: whenever a request on an existing task writes to the store, its caller
\* passes the permission test of the operation on the store the write is
\* applied to (owner or 'write' grantee for update, owner for the others).
C25_AuthorizedAtCommit ==
    [][\A r \in Slots : Commits(r) => AuthorizedNow(r)]_vars

\* ---------------------------------------------------------------------- C26
\* C26: every published task_updated record carries the row of a task, and an
\* update is answered with success only when its UPDATE has written a row.
C26_UpdateRecordHasTask ==
    /\ \A i \in 1..Len(events) :
          events[i].kind = "task_updated" => events[i].payload # {}
    /\ \A r \in Slots :
          (reqs[r].op = "update" /\ reqs[r].pc = "done"
             /\ ErrorKind(reqs[r].res) = "Success") => reqs[r].rows # {}

\* ---------------------------------------------------------------------- C27
\* C27: a page has no socket besides the current one of its SocketManager, and
\* a published record runs each registered callback at most once.
C27_OneLiveSocket ==
    \A s \in Sessions :
        /\ sess[s].leaked = 0
        /\ Callbacks(s) <= sess[s].listeners

\* ---------------------------------------------------------------------- C28
\* C28: a page never has more than one handler registered per kind of record,
\* and a signed-in page has exactly one.
C28_OneHandlerPerKind ==
    \A s \in Sessions :
        /\ sess[s].listeners <= 1
        /\ sess[s].conn \in {"on", "lost"} => sess[s].listeners = 1

\* ---------------------------------------------------------------------- C29
\* a collaborator_added record has named u for task id
WasGranted(u, id) ==
    \E j \in 1..Len(events) :
        /\ events[j].kind = "collaborator_added"
        /\ events[j].taskId = id
        /\ events[j].userId = u

\* C29: every task in the local list of a session was created by the
\* principal of the session or has been shared with it.
C29_LocalOwnedOrShared ==
    \A s \in Sessions : \A i \in 1..Len(sess[s].local) :
        \/ sess[s].local[i].created_by = SessionUser(s)
        \/ WasGranted(SessionUser(s), sess[s].local[i].id)

\* ---------------------------------------------------------------------- C30
\* C30: a connected session to which everything has been delivered, and whose
\* fetches have all been answered, holds the stored title, description,
\* status, priority and due_date of every task it holds that its principal
\* owns or has a grant on.
C30_ConnectedConverges ==
    \A s \in Sessions : \A i \in 1..Len(sess[s].local) :
        Quiescent(s) =>
            \A t \in tasks :
                (/\ t.id = sess[s].local[i].id
                 /\ \/ t.created_by = SessionUser(s)
                    \/ HoldsAnyGrant(SessionUser(s), t.id)) =>
                    \A k \in UpdatableKeys : sess[s].local[i][k] = t[k]

====
